---- MODULE Spec2Model ----
(***************************************************************************)
(* Birth-chart service: the FastAPI application (src/app.py) and the       *)
(* ephemeris provisioning script (src/download_ephe.py).                   *)
(*                                                                         *)
(* Numbers.  Longitudes are Python floats; they are modelled in fixed      *)
(* point, Deg ticks to the degree, three ticks to the sixth decimal, so    *)
(* that round(x, 6) is a real rounding with no exact ties.                 *)
(* Strings are TLA+ strings handled character by character (Len, SubSeq,   *)
(* \o).  The character "#" stands for a non-ASCII lower-case letter and    *)
(* "@" for its upper case.                                                 *)
(* JSON values are tagged records: Absent (key not in the dict), None,     *)
(* Str(s), Num(n).                                                         *)
(***************************************************************************)
EXTENDS Integers, Sequences, FiniteSets, TLC

VARIABLES
    loaded,         \* app.py has been imported
    startup_calls,  \* engine calls made while importing app.py, in order
    dir_exists,     \* the directory SWEPHE_PATH exists
    disk,           \* file name -> "absent" | "empty" | "data", in that directory
    request,        \* the last request handled (endpoint and input)
    env,            \* what the collaborators answered during that request
    calls,          \* checks and collaborator calls of that request, in order
    response,       \* the response returned for it
    dl_pc,          \* download_ephe.main: "idle" | "loop" | "done" | "aborted"
    dl_i,           \* index in FILES of the next file of the loop
    missing,        \* main's list `missing`
    dl_log          \* what main fetched, skipped, unpacked and printed, in order

vars == <<loaded, startup_calls, dir_exists, disk, request, env, calls,
          response, dl_pc, dl_i, missing, dl_log>>

app_vars == <<loaded, startup_calls, request, env, calls, response>>
dl_vars == <<dl_pc, dl_i, missing, dl_log>>
fs_vars == <<dir_exists, disk>>

-----------------------------------------------------------------------------
(* Bounds of the model *)

\* longitudes tried by deg_to_sign reach SignSpan signs either side of 0
SignSpan == 13
\* ... and lie within MaxOff ticks of a sign boundary
MaxOff == 3
\* 600-year blocks provisioned (the program has 10: see AllBlocks)
NumBlocks == 2
\* matches in one geocoding answer (the program asks for at most 8)
MaxMatches == 2
\* longest cusp array the engine is made to return
MaxCusps == 14
\* first-cusp offsets tried, in signs
MaxStart == 2

-----------------------------------------------------------------------------
(* JSON values and Python's view of them *)

Absent == [t |-> "absent"]
None == [t |-> "none"]
Str(s) == [t |-> "str", s |-> s]
Num(n) == [t |-> "num", n |-> n]

\* dict.get(key): None when the key is absent
Get(payload, key) == IF payload[key] = Absent THEN None ELSE payload[key]

\* Python truthiness of a JSON value
Truthy(v) ==
    CASE v.t = "none" -> FALSE
      [] v.t = "str" -> v.s # ""
      [] v.t = "num" -> v.n # 0
      [] v.t = "tuple" -> v.items # <<>>
      [] OTHER -> FALSE

\* strings float() accepts, with their value
NumericStrings == {"40", "-74", "0"}
StrToNum(s) == CASE s = "40" -> 40 [] s = "-74" -> -74 [] OTHER -> 0

\* float(v): [ok, val] or [ok = FALSE, err]
Float(v) ==
    CASE v.t = "num" -> [ok |-> TRUE, val |-> v.n]
      [] v.t = "str" /\ v.s \in NumericStrings -> [ok |-> TRUE, val |-> StrToNum(v.s)]
      [] v.t = "str" -> [ok |-> FALSE, err |-> "could not convert string to float"]
      [] OTHER -> [ok |-> FALSE,
                   err |-> "float() argument must be a string or a real number"]

-----------------------------------------------------------------------------
(* Strings *)

Char(s, i) == SubSeq(s, i, i)

LowerAlpha == "abcdefghijklmnopqrstuvwxyz#"
UpperAlpha == "ABCDEFGHIJKLMNOPQRSTUVWXYZ@"

UpperChar(c) ==
    IF \E i \in 1..Len(LowerAlpha) : Char(LowerAlpha, i) = c
    THEN Char(UpperAlpha, CHOOSE i \in 1..Len(LowerAlpha) : Char(LowerAlpha, i) = c)
    ELSE c

\* str.upper()
RECURSIVE Upper(_)
Upper(s) == IF s = "" THEN "" ELSE UpperChar(Char(s, 1)) \o Upper(SubSeq(s, 2, Len(s)))

NonAscii == {"#", "@"}
\* str.encode("ascii") succeeds
IsAscii(s) == \A i \in 1..Len(s) : Char(s, i) \notin NonAscii

\* str.strip(chars): both ends
RECURSIVE LStrip(_, _)
LStrip(s, chars) ==
    IF s # "" /\ Char(s, 1) \in chars THEN LStrip(SubSeq(s, 2, Len(s)), chars) ELSE s
RECURSIVE RStrip(_, _)
RStrip(s, chars) ==
    IF s # "" /\ Char(s, Len(s)) \in chars
    THEN RStrip(SubSeq(s, 1, Len(s) - 1), chars) ELSE s
Strip(s, chars) == RStrip(LStrip(s, chars), chars)
Whitespace == {" ", "\t", "\n"}

\* str.replace("  ", " "): non-overlapping, left to right
RECURSIVE ReplaceDoubleSpace(_)
ReplaceDoubleSpace(s) ==
    IF Len(s) < 2 THEN s
    ELSE IF SubSeq(s, 1, 2) = "  "
         THEN " " \o ReplaceDoubleSpace(SubSeq(s, 3, Len(s)))
         ELSE Char(s, 1) \o ReplaceDoubleSpace(SubSeq(s, 2, Len(s)))

-----------------------------------------------------------------------------
(* deg_to_sign *)

RoundDigits == 6
Unit == 10 ^ RoundDigits
\* ticks in one degree: three to the sixth decimal
Deg == 3 * Unit
Step == Deg \div Unit

SIGNS == <<"Aries", "Taurus", "Gemini", "Cancer", "Leo", "Virgo",
           "Libra", "Scorpio", "Sagittarius", "Capricorn", "Aquarius", "Pisces">>

\* round(x, 6) of a non-negative x: to the nearest multiple of Step
Round6(x) == ((x + Step \div 2) \div Step) * Step

deg_to_sign(lon_deg) ==
    LET lon == lon_deg % (360 * Deg)
        sign_idx == lon \div (30 * Deg)
        deg_in_sign == lon - sign_idx * 30 * Deg
    IN  [lon |-> Round6(lon), sign |-> SIGNS[sign_idx + 1], deg |-> Round6(deg_in_sign)]

-----------------------------------------------------------------------------
(* The ephemeris directory *)

AllBlocks == <<"00", "06", "12", "18", "24", "30", "36", "42", "48", "54">>
BLOCKS == SubSeq(AllBlocks, 1, NumBlocks)

\* FILES: for each block the planets file, then the Moon file
FILES ==
    [i \in 1..(2 * Len(BLOCKS)) |->
        IF i % 2 = 1 THEN "sepl_" \o BLOCKS[(i + 1) \div 2] \o ".se1"
                     ELSE "semo_" \o BLOCKS[i \div 2] \o ".se1"]

GzName(fn) == fn \o ".gz"
FileNames == {FILES[i] : i \in DOMAIN FILES} \cup {GzName(FILES[i]) : i \in DOMAIN FILES}

EndsWith(s, suffix) ==
    Len(s) >= Len(suffix) /\ SubSeq(s, Len(s) - Len(suffix) + 1, Len(s)) = suffix

NoFiles == [fn \in FileNames |-> "absent"]

\* os.listdir(EPHE_PATH)
ListDir(dk) == {fn \in DOMAIN dk : dk[fn] # "absent"}

\* faulty variant: only the directory is looked at, not its files
ensure_ephe_present_dir_only(de, dk) ==
    IF ~de THEN [ok |-> FALSE, err |-> "EPHE_PATH not found"] ELSE [ok |-> TRUE]

ensure_ephe_present(de, dk) ==
    IF ~de THEN [ok |-> FALSE, err |-> "EPHE_PATH not found"]
    ELSE IF ~(\E fn \in ListDir(dk) : EndsWith(fn, ".se1"))
         THEN [ok |-> FALSE, err |-> "No .se1 files found in EPHE_PATH"]
         ELSE [ok |-> TRUE]

-----------------------------------------------------------------------------
(* Time Normalizer *)

FmtMinutes == "%Y-%m-%d %H:%M"
FmtSeconds == "%Y-%m-%d %H:%M:%S"

\* datetime.strptime, on the strings of the model
Strptime(s, fmt) ==
    CASE s = "2000-01-01 00:00" /\ fmt = FmtMinutes ->
            [ok |-> TRUE, val |-> [year |-> 2000, month |-> 1, day |-> 1,
                                   hour |-> 0, minute |-> 0, second |-> 0]]
      [] s = "1990-06-15 14:30" /\ fmt = FmtMinutes ->
            [ok |-> TRUE, val |-> [year |-> 1990, month |-> 6, day |-> 15,
                                   hour |-> 14, minute |-> 30, second |-> 0]]
      [] s = "1990-06-15 14:30:15" /\ fmt = FmtSeconds ->
            [ok |-> TRUE, val |-> [year |-> 1990, month |-> 6, day |-> 15,
                                   hour |-> 14, minute |-> 30, second |-> 15]]
      [] OTHER -> [ok |-> FALSE, err |-> "time data does not match format"]

\* ZoneInfo(tz_name) and the zone's offset from UTC, in hours, at a local time
KnownZones == {"UTC", "America/New_York"}
UtcOffset(tz, naive) ==
    IF tz = "UTC" THEN 0 ELSE IF naive.month \in 4..10 THEN -4 ELSE -5

local_to_utc(local_dt_str, tz_name) ==
    IF local_dt_str.t # "str"
    THEN [ok |-> FALSE, err |-> "object has no attribute 'strip'"]
    ELSE LET stripped == Strip(local_dt_str.s, Whitespace)
             fmt == IF Len(stripped) > 16 THEN FmtSeconds ELSE FmtMinutes
             naive == Strptime(stripped, fmt)
         IN  IF ~naive.ok THEN naive
             ELSE IF tz_name.t # "str" \/ tz_name.s \notin KnownZones
                  THEN [ok |-> FALSE, err |-> "No time zone found with key"]
                  ELSE LET h == naive.val.hour - UtcOffset(tz_name.s, naive.val)
                       IN  [ok |-> TRUE,
                            val |-> [naive.val EXCEPT !.hour = h % 24,
                                                      !.day = @ + h \div 24]]

\* the arguments handed to swe.julday; the hour is kept in seconds
utc_to_jd_ut(utc_dt) ==
    <<utc_dt.year, utc_dt.month, utc_dt.day,
      utc_dt.hour * 3600 + utc_dt.minute * 60 + utc_dt.second>>

-----------------------------------------------------------------------------
(* POST /api/chart *)

\* PLANETS, in the order the dict is iterated
PLANETS == <<"Sun", "Moon", "Mercury", "Venus", "Mars", "Jupiter", "Saturn",
             "Uranus", "Neptune", "Pluto", "TrueNode">>
PlanetNames == {PLANETS[i] : i \in DOMAIN PLANETS}

\* str(i + 1) for i in range(12)
HouseKey == <<"1", "2", "3", "4", "5", "6", "7", "8", "9", "10", "11", "12">>
HouseKeys == {HouseKey[i] : i \in DOMAIN HouseKey}
HouseNumber(k) == CHOOSE i \in DOMAIN HouseKey : HouseKey[i] = k

\* what the engine hands back: a number, or a list/tuple of such values
Tup(items) == [t |-> "tuple", items |-> items]
IsTuple(v) == v.t = "tuple"

JsonResponse(status, body) == [status |-> status, body |-> body]
ChartError(msg) == JsonResponse(500, [error |-> msg, where |-> "chart"])

Repeat(event, n) == [i \in 1..n |-> event]

\* (payload.get("house_system") or "P").upper()[:1], then .encode("ascii")
HouseSystem(payload) ==
    LET v == Get(payload, "house_system")
        base == IF Truthy(v) THEN v ELSE Str("P")
    IN  IF base.t # "str"
        THEN [ok |-> FALSE, err |-> "object has no attribute 'upper'"]
        ELSE LET hsys == SubSeq(Upper(base.s), 1, 1)
             IN  IF IsAscii(hsys) THEN [ok |-> TRUE, val |-> hsys]
                 ELSE [ok |-> FALSE, err |-> "'ascii' codec can't encode character"]

\* lines 268-274: (cusps, ascmc), or cusps alone
SplitHouses(res) ==
    IF IsTuple(res) /\ Len(res.items) = 2 /\ IsTuple(res.items[1])
    THEN [cusps |-> res.items[1], ascmc |-> res.items[2]]
    ELSE [cusps |-> res, ascmc |-> None]

\* faulty variant: the 1-based shape is not recognised
Cusps12ZeroBasedOnly(cusps_list) ==
    IF Len(cusps_list) >= 12 THEN [ok |-> TRUE, val |-> SubSeq(cusps_list, 1, 12)]
    ELSE [ok |-> FALSE, err |-> "Unexpected cusps length"]

\* faulty variant: the length is not checked, missing cusps read as 0
Cusps12Unchecked(cusps_list) ==
    [ok |-> TRUE,
     val |-> [i \in 1..12 |->
                IF Len(cusps_list) = 13 THEN cusps_list[i + 1]
                ELSE IF i <= Len(cusps_list) THEN cusps_list[i] ELSE [t |-> "num", n |-> 0]]]

\* lines 276-282: the twelve cusps of a cusp list
Cusps12(cusps_list) ==
    IF Len(cusps_list) = 13 THEN [ok |-> TRUE, val |-> SubSeq(cusps_list, 2, 13)]
    ELSE IF Len(cusps_list) >= 12 THEN [ok |-> TRUE, val |-> SubSeq(cusps_list, 1, 12)]
    ELSE [ok |-> FALSE, err |-> "Unexpected cusps length"]

\* faulty variant: the houses are keyed str(i), "0".."11"
HouseCuspsFromZero(cusps_12) ==
    [k \in {"0"} \cup (HouseKeys \ {"12"}) |->
        deg_to_sign(cusps_12[IF k = "0" THEN 1 ELSE HouseNumber(k) + 1].n)]

\* line 284
HouseCusps(cusps_12) ==
    [k \in HouseKeys |-> deg_to_sign(cusps_12[HouseNumber(k)].n)]

\* lines 286-287: the angle at position i of ascmc (counted from 1), or null
Angle(ascmc, i) ==
    IF Truthy(ascmc) /\ Len(ascmc.items) >= i
    THEN deg_to_sign(ascmc.items[i].n) ELSE None

\* lines 257-260: the loop over the bodies, which stops at the first call that raises
Planets(eng) ==
    [ok |-> eng.calc_fail = 0,
     ncalls |-> IF eng.calc_fail = 0 THEN Len(PLANETS) ELSE eng.calc_fail,
     out |-> [name \in PlanetNames |-> deg_to_sign(eng.xx[name])]]

\* lines 262-304: houses, angles and the result document
ChartHouses(payload, eng, local_dt_str, tz_name, utc_dt, lat, lon, jd_ut, planets_out, done) ==
    LET hs == HouseSystem(payload)
    IN  IF ~hs.ok THEN [response |-> ChartError(hs.err), calls |-> done]
        ELSE IF eng.houses.raises
        THEN [response |-> ChartError("swisseph.Error"),
              calls |-> Append(done, "houses_ex")]
        ELSE LET split == SplitHouses(eng.houses.res)
                 called == Append(done, "houses_ex")
             IN  IF ~IsTuple(split.cusps)
                 THEN [response |-> ChartError("object is not iterable"),
                       calls |-> called]
                 ELSE LET c12 == Cusps12(split.cusps.items)
                      IN  IF ~c12.ok
                          THEN [response |-> ChartError(c12.err), calls |-> called]
                          ELSE [response |->
                                  JsonResponse(200,
                                    [code_version |-> "stable-v1",
                                     input |-> [local_datetime |-> local_dt_str.s,
                                                tz |-> tz_name.s,
                                                utc_datetime |-> utc_dt,
                                                lat |-> lat,
                                                lon |-> lon,
                                                jd_ut |-> jd_ut,
                                                ephe_path |-> "SWEPHE_PATH",
                                                house_system |-> hs.val],
                                     angles |-> [Asc |-> Angle(split.ascmc, 1),
                                                 MC |-> Angle(split.ascmc, 2)],
                                     planets |-> planets_out,
                                     house_cusps |-> HouseCusps(c12.val)]),
                                calls |-> called]

\* lines 244-260: the fields, the validation, the time conversion and the bodies
ChartBody(payload, eng, done) ==
    LET local_dt_str == Get(payload, "local_datetime")
        tz_name == Get(payload, "tz")
        lat == Float(Get(payload, "lat"))
        lon == Float(Get(payload, "lon"))
    IN  IF ~lat.ok THEN [response |-> ChartError(lat.err), calls |-> done]
        ELSE IF ~lon.ok THEN [response |-> ChartError(lon.err), calls |-> done]
        ELSE IF ~Truthy(local_dt_str) \/ ~Truthy(tz_name)
        THEN [response |-> JsonResponse(400, [error |-> "Missing local_datetime or tz"]),
              calls |-> done]
        ELSE LET utc_dt == local_to_utc(local_dt_str, tz_name)
             IN  IF ~utc_dt.ok THEN [response |-> ChartError(utc_dt.err), calls |-> done]
                 ELSE LET jd_ut == utc_to_jd_ut(utc_dt.val)
                          pl == Planets(eng)
                          called == Append(done, "julday") \o Repeat("calc_ut", pl.ncalls)
                      IN  IF ~pl.ok
                          THEN [response |-> ChartError("swisseph.Error"),
                                calls |-> called]
                          ELSE ChartHouses(payload, eng, local_dt_str, tz_name,
                                           utc_dt.val, lat.val, lon.val, jd_ut,
                                           pl.out, called)

\* the handler: [response, calls]
chart(payload, eng, de, dk) ==
    LET present == ensure_ephe_present(de, dk)
    IN  IF ~present.ok
        THEN [response |-> ChartError(present.err),
              calls |-> <<"ensure_ephe_present:raise">>]
        ELSE ChartBody(payload, eng, <<"ensure_ephe_present:ok">>)

-----------------------------------------------------------------------------
(* GET /api/resolve_place *)

\* faulty variant: the error object carries no 'where' tag
PlaceErrorUntagged(msg) == JsonResponse(500, [error |-> msg])

PlaceError(msg) == JsonResponse(500, [error |-> msg, where |-> "resolve_place"])

\* a value inside an f-string
Format(v) == CASE v.t = "str" -> v.s [] v.t = "none" -> "None" [] OTHER -> "?"

\* f"{r.get('name')}, {r.get('admin1') or ''} {r.get('country') or ''}"
\*     .replace("  ", " ").strip().strip(",")
DisplayName(r) ==
    LET name == Get(r, "name")
        admin1 == Get(r, "admin1")
        country == Get(r, "country")
        text == Format(name) \o ", "
                \o (IF Truthy(admin1) THEN Format(admin1) ELSE "") \o " "
                \o (IF Truthy(country) THEN Format(country) ELSE "")
    IN  Strip(Strip(ReplaceDoubleSpace(text), Whitespace), {","})

\* lines 227-233: one candidate, or the error of a match without coordinates
Candidate(r) ==
    IF r["latitude"] = Absent \/ r["longitude"] = Absent
    THEN [ok |-> FALSE, err |-> "KeyError"]
    ELSE LET lat == Float(r["latitude"])
             lon == Float(r["longitude"])
             tz == Get(r, "timezone")
         IN  IF ~lat.ok THEN lat
             ELSE IF ~lon.ok THEN lon
             ELSE [ok |-> TRUE,
                   val |-> [display_name |-> DisplayName(r),
                            lat |-> lat.val,
                            lon |-> lon.val,
                            tz |-> IF Truthy(tz) THEN tz.s ELSE "UTC"]]

\* faulty variant: the candidates come out in reverse order
CandidatesReversed(results) ==
    [i \in DOMAIN results |-> Candidate(results[Len(results) + 1 - i])]

\* lines 225-234: the candidates of the matches, in their order
Candidates(results) == [i \in DOMAIN results |-> Candidate(results[i])]

\* lines 218-236: [response, calls]
resolve_place(net) ==
    LET called == <<"requests.get">>
    IN  IF net.kind = "unreachable"
        THEN [response |-> PlaceError("ConnectionError"), calls |-> called]
        ELSE IF net.status >= 400
        THEN [response |-> PlaceError("HTTPError"), calls |-> called]
        ELSE IF ~net.json
        THEN [response |-> PlaceError("JSONDecodeError"), calls |-> called]
        ELSE IF net.data.t # "dict"
        THEN [response |-> PlaceError("object has no attribute 'get'"), calls |-> called]
        ELSE LET got == Get(net.data, "results")
                 results == IF Truthy(got) THEN got ELSE Tup(<<>>)
             IN  IF ~IsTuple(results)
                 THEN [response |-> PlaceError("object has no attribute 'get'"),
                       calls |-> called]
                 ELSE LET built == Candidates(results.items)
                      IN  IF \E i \in DOMAIN built : ~built[i].ok
                          THEN [response |->
                                  PlaceError(built[CHOOSE i \in DOMAIN built :
                                      ~built[i].ok /\ \A j \in 1..(i - 1) : built[j].ok].err),
                                calls |-> called]
                          ELSE [response |->
                                  JsonResponse(200, [i \in DOMAIN built |-> built[i].val]),
                                calls |-> called]

\* Query(..., min_length=2): the framework answers a shorter q itself
MinLength == 2

-----------------------------------------------------------------------------
(* The application as a state machine *)

NoRequest == [endpoint |-> "none"]
NoEnv == [kind |-> "none"]
NoResponse == [status |-> 0]

\* module import: line 16
Import ==
    /\ ~loaded
    /\ loaded' = TRUE
    /\ startup_calls' = Append(startup_calls, "set_ephe_path")
    /\ UNCHANGED <<request, env, calls, response, fs_vars, dl_vars>>

\* the worker takes one request at a time: it is idle when request = NoRequest
Chart(payload, eng) ==
    /\ loaded
    /\ request = NoRequest
    /\ LET r == chart(payload, eng, dir_exists, disk)
       IN  /\ request' = [endpoint |-> "chart", payload |-> payload]
           /\ env' = eng
           /\ calls' = r.calls
           /\ response' = r.response
    /\ UNCHANGED <<loaded, startup_calls, fs_vars, dl_vars>>

ResolvePlace(q, net) ==
    /\ loaded
    /\ request = NoRequest
    /\ request' = [endpoint |-> "resolve_place", q |-> q]
    /\ IF Len(q) < MinLength
       THEN /\ env' = NoEnv
            /\ calls' = <<>>
            /\ response' = JsonResponse(422, [detail |-> "string_too_short"])
       ELSE LET r == resolve_place(net)
            IN  /\ env' = net
                /\ calls' = r.calls
                /\ response' = r.response
    /\ UNCHANGED <<loaded, startup_calls, fs_vars, dl_vars>>

\* the response is sent and the worker waits for the next request
Respond ==
    /\ request # NoRequest
    /\ request' = NoRequest
    /\ env' = NoEnv
    /\ calls' = <<>>
    /\ response' = NoResponse
    /\ UNCHANGED <<loaded, startup_calls, fs_vars, dl_vars>>

-----------------------------------------------------------------------------
(* Inputs *)

\* states of the ephemeris directory the application may find
Only(fn, size) == [NoFiles EXCEPT ![fn] = size]
EpheStates ==
    { [de |-> FALSE, dk |-> NoFiles],
      [de |-> TRUE, dk |-> NoFiles],
      [de |-> TRUE, dk |-> Only(GzName(FILES[1]), "data")],
      [de |-> TRUE, dk |-> Only(FILES[1], "empty")],
      [de |-> TRUE, dk |-> Only(FILES[2], "data")] }

Payloads ==
    [ local_datetime : {Absent, Str(""), Str("2000-01-01 00:00"),
                        Str(" 1990-06-15 14:30:15 "), Str("15/06/1990")},
      tz : {Absent, None, Str(""), Str("UTC"), Str("America/New_York"), Str("Mars/Olympus")},
      lat : {Absent, Num(40), Str("40"), Str("north")},
      lon : {Absent, Num(-74)},
      house_system : {Absent, None, Str(""), Str("p"), Str("K"), Str("koch"),
                      Str("#"), Num(5)} ]

GoodPayloads ==
    { p \in Payloads :
        /\ p.local_datetime \in {Str("2000-01-01 00:00"), Str(" 1990-06-15 14:30:15 ")}
        /\ p.tz = Str("America/New_York")
        /\ p.lat = Num(40) /\ p.lon = Num(-74)
        /\ p.house_system = Str("koch") }

\* the longitudes calc_ut returns for the bodies
Sky == [name \in PlanetNames |->
          ((CHOOSE i \in DOMAIN PLANETS : PLANETS[i] = name) * 47 - 100) * Deg + 2]

\* twelve cusps: the first at `start` signs, `step` degrees apart, one of them
\* (bump_at, if any) a tick further
StepChoices == {27, 30, 33}
CuspFamily ==
    { [k \in 1..12 |-> Num((start * 30 + (k - 1) * step) * Deg
                           + (IF k = bump_at THEN 1 ELSE 0))] :
        start \in 0..MaxStart, step \in StepChoices, bump_at \in 0..12 }
PlainCusps == [k \in 1..12 |-> Num((k - 1) * 30 * Deg)]

\* a cusp array of n entries holding the cusps cs: 1-based when n = 13
CuspArray(cs, n) ==
    Tup([i \in 1..n |->
            IF n = 13 THEN (IF i = 1 THEN Num(0) ELSE cs[i - 1])
            ELSE IF i <= 12 THEN cs[i] ELSE Num(0)])

AscmcChoices == {<<>>, <<Num(15 * Deg)>>, <<Num(15 * Deg), Num(280 * Deg)>>}

\* what houses_ex returns for the cusps cs: the array alone, or paired with angles
HouseResults(cs, lengths, angles) ==
    { [raises |-> FALSE, cs |-> cs, n |-> n, paired |-> FALSE, res |-> CuspArray(cs, n)] :
        n \in lengths }
    \cup
    { [raises |-> FALSE, cs |-> cs, n |-> n, paired |-> TRUE,
       res |-> Tup(<<CuspArray(cs, n), Tup(a)>>)] : n \in lengths, a \in angles }

HousesRaise == [raises |-> TRUE, cs |-> PlainCusps, n |-> 0, paired |-> FALSE, res |-> None]

Engine(calc_fail, houses) ==
    [kind |-> "engine", calc_fail |-> calc_fail, xx |-> Sky, houses |-> houses]

\* every engine behaviour of the model
Engines ==
    { Engine(k, HousesRaise) : k \in 0..Len(PLANETS) }
    \cup { Engine(0, h) : h \in HouseResults(PlainCusps, 0..MaxCusps, AscmcChoices) }
    \cup { Engine(0, h) : h \in UNION { HouseResults(cs, {12, 13}, {<<Num(15 * Deg)>>}) :
                                         cs \in CuspFamily } }

CoreEngines ==
    { Engine(0, h) : h \in HouseResults(PlainCusps, {11}, {})
                           \cup HouseResults(PlainCusps, {13}, {<<Num(15 * Deg)>>}) }

\* every payload meets a few engines and every engine a few payloads; when the
\* ephemeris directory fails the check the engine is never reached
ChartInputs(de, dk) ==
    IF ensure_ephe_present(de, dk).ok
    THEN (Payloads \X CoreEngines) \cup (GoodPayloads \X Engines)
    ELSE Payloads \X {Engine(0, HousesRaise)}

\* geocoding answers
Matches ==
    [ name : {Absent, Str("Paris")},
      admin1 : {Absent, Str("Ile-de-France")},
      country : {None, Str("France")},
      latitude : {Num(48)},
      longitude : {Num(2)},
      timezone : {Str("Europe/Paris")} ]
    \cup
    [ name : {Str("George Town")},
      admin1 : {Str("Penang")},
      country : {Str("Malaysia")},
      latitude : {Str("40")},
      longitude : {Num(100)},
      timezone : {Absent, None, Str("")} ]

MatchLists == UNION { [1..n -> Matches] : n \in 0..MaxMatches }

Answer(status, json, data) == [kind |-> "http", status |-> status, json |-> json, data |-> data]
Dict(results) == [t |-> "dict", results |-> results]

Answers ==
    { [kind |-> "unreachable"], Answer(404, TRUE, Dict(Absent)), Answer(500, FALSE, None),
      Answer(200, FALSE, None), Answer(200, TRUE, Tup(<<>>)),
      Answer(200, TRUE, Dict(Absent)), Answer(200, TRUE, Dict(None)) }
    \cup { Answer(200, TRUE, Dict(Tup(ms))) : ms \in MatchLists }

Queries == {"", "x", "George Town"}

-----------------------------------------------------------------------------
(* Specification of the application *)

Init ==
    /\ loaded = FALSE
    /\ startup_calls = <<>>
    /\ \E e \in EpheStates : dir_exists = e.de /\ disk = e.dk
    /\ request = NoRequest
    /\ env = NoEnv
    /\ calls = <<>>
    /\ response = NoResponse
    /\ dl_pc = "idle"
    /\ dl_i = 1
    /\ missing = <<>>
    /\ dl_log = <<>>

Next ==
    \/ Import
    \/ /\ loaded /\ request = NoRequest
       /\ \E in \in ChartInputs(dir_exists, disk) : Chart(in[1], in[2])
    \/ /\ loaded /\ request = NoRequest
       /\ \E q \in Queries, net \in Answers : ResolvePlace(q, net)
    \/ Respond

Spec == Init /\ [][Next]_vars

-----------------------------------------------------------------------------
(* deg_to_sign on its own: the inputs are drawn first, then the function is applied *)

Longitudes ==
    { k * 30 * Deg + d : k \in (0 - SignSpan)..SignSpan, d \in (0 - MaxOff)..MaxOff }

InitSign ==
    /\ loaded = TRUE
    /\ startup_calls = <<"set_ephe_path">>
    /\ dir_exists = FALSE
    /\ disk = NoFiles
    /\ \E L \in Longitudes : request = [endpoint |-> "deg_to_sign", lon_deg |-> L]
    /\ env = NoEnv
    /\ calls = <<>>
    /\ response = NoResponse
    /\ dl_pc = "idle"
    /\ dl_i = 1
    /\ missing = <<>>
    /\ dl_log = <<>>

DegToSign ==
    /\ request.endpoint = "deg_to_sign"
    /\ response = NoResponse
    /\ response' = [returned |-> deg_to_sign(request.lon_deg)]
    /\ UNCHANGED <<loaded, startup_calls, request, env, calls, fs_vars, dl_vars>>

NextSign == DegToSign

SpecSign == InitSign /\ [][NextSign]_vars

-----------------------------------------------------------------------------
(* download_ephe.py *)

Event(op, what) == [op |-> op, what |-> what]

\* what a download attempt can do: succeed, fail before the destination is opened
\* (urlopen raises), or fail after it was opened and truncated (read raises)
GetOutcomes == {"ok", "refused", "broken"}
\* what decompression can do
GunzipOutcomes == {"ok", "corrupt"}

\* http_get(url, dest): [ok, dk, log]
http_get(dk, dest, outcome) ==
    IF dk[dest] = "data"
    THEN [ok |-> TRUE, dk |-> dk, log |-> <<Event("[skip]", dest)>>]
    ELSE CASE outcome = "ok" ->
                [ok |-> TRUE, dk |-> [dk EXCEPT ![dest] = "data"],
                 log |-> <<Event("[get ]", dest)>>]
           [] outcome = "refused" ->
                [ok |-> FALSE, dk |-> dk,
                 log |-> <<Event("[get ]", dest), Event("[miss]", dest)>>]
           [] OTHER ->
                [ok |-> FALSE, dk |-> [dk EXCEPT ![dest] = "empty"],
                 log |-> <<Event("[get ]", dest), Event("[miss]", dest)>>]

\* gunzip_file(gz_path, out_path): [ok, dk, log]; it raises on a corrupt archive,
\* after out_path was opened for writing
gunzip_file(dk, gz_path, out_path, outcome) ==
    IF outcome = "ok"
    THEN [ok |-> TRUE, dk |-> [dk EXCEPT ![out_path] = "data", ![gz_path] = "absent"],
          log |-> <<Event("[gunz]", gz_path)>>]
    ELSE [ok |-> FALSE, dk |-> [dk EXCEPT ![out_path] = "empty"],
          log |-> <<Event("[gunz]", gz_path)>>]

\* main, line 43
Start ==
    /\ dl_pc = "idle"
    /\ dir_exists' = TRUE
    /\ missing' = <<>>
    /\ dl_pc' = "loop"
    /\ UNCHANGED <<disk, dl_i, dl_log, app_vars>>

\* main, lines 46-62: one turn of the loop
ProcessFile(o1, o2, o3) ==
    /\ dl_pc = "loop"
    /\ dl_i <= Len(FILES)
    /\ LET fn == FILES[dl_i]
           plain == http_get(disk, fn, o1)
           gz == http_get(plain.dk, GzName(fn), o2)
           unz == gunzip_file(gz.dk, GzName(fn), fn, o3)
       IN  IF plain.ok
           THEN /\ disk' = plain.dk
                /\ dl_log' = dl_log \o plain.log
                /\ dl_i' = dl_i + 1
                /\ UNCHANGED <<missing, dl_pc>>
           ELSE IF gz.ok
           THEN /\ disk' = unz.dk
                /\ dl_log' = dl_log \o plain.log \o gz.log \o unz.log
                /\ IF unz.ok
                   THEN dl_i' = dl_i + 1 /\ dl_pc' = dl_pc
                   ELSE dl_i' = dl_i /\ dl_pc' = "aborted"
                /\ UNCHANGED missing
           ELSE /\ disk' = gz.dk
                /\ dl_log' = dl_log \o plain.log \o gz.log
                /\ missing' = Append(missing, fn)
                /\ dl_i' = dl_i + 1
                /\ UNCHANGED dl_pc
    /\ UNCHANGED <<dir_exists, app_vars>>

\* main, lines 64-72
Finish ==
    /\ dl_pc = "loop"
    /\ dl_i > Len(FILES)
    /\ dl_log' = dl_log
                 \o (IF missing # <<>>
                     THEN <<Event("Missing files", missing), Event("Continuing anyway", "")>>
                     ELSE <<>>)
                 \o <<Event("Ephemeris ready", "")>>
    /\ dl_pc' = "done"
    /\ UNCHANGED <<dir_exists, disk, dl_i, missing, app_vars>>

\* the directory before provisioning
InitDownload ==
    /\ loaded = FALSE
    /\ startup_calls = <<>>
    /\ \E e \in EpheStates \cup {[de |-> TRUE, dk |-> Only(FILES[2], "data")],
                                 [de |-> TRUE, dk |-> Only(GzName(FILES[2]), "empty")]} :
          dir_exists = e.de /\ disk = e.dk
    /\ request = NoRequest
    /\ env = NoEnv
    /\ calls = <<>>
    /\ response = NoResponse
    /\ dl_pc = "idle"
    /\ dl_i = 1
    /\ missing = <<>>
    /\ dl_log = <<>>

NextDownload ==
    \/ Start
    \/ \E o1 \in GetOutcomes, o2 \in GetOutcomes, o3 \in GunzipOutcomes : ProcessFile(o1, o2, o3)
    \/ Finish

SpecDownload == InitDownload /\ [][NextDownload]_vars

-----------------------------------------------------------------------------
(* Properties *)

IsChart == request.endpoint = "chart"
IsPlace == request.endpoint = "resolve_place" /\ Len(request.q) >= MinLength

\* the directory check, stated on the directory itself
DirOk == dir_exists /\ \E fn \in DOMAIN disk : disk[fn] # "absent" /\ EndsWith(fn, ".se1")

Lacking(p, key) == p[key] \in {Absent, None, Str("")}
Called(event) == \E i \in DOMAIN calls : calls[i] = event
ChartFields == {"input", "angles", "planets", "house_cusps"}

\* C1: a chart request whose payload lacks local_datetime or tz (absent or
\* empty) is answered 400, whatever the other fields and the ephemeris directory
\* are, and neither calc_ut nor houses_ex is called.
C1_MissingFieldIsClientError ==
    (IsChart /\ (Lacking(request.payload, "local_datetime") \/ Lacking(request.payload, "tz")))
        => /\ response.status = 400
           /\ ~Called("calc_ut") /\ ~Called("houses_ex")

\* the error kinds of a handled request, read off its inputs
ConfigError == IsChart /\ ~DirOk
ValidationError ==
    IsChart /\ (Lacking(request.payload, "local_datetime") \/ Lacking(request.payload, "tz"))
ParseError ==
    /\ IsChart /\ ~ValidationError
    /\ ~local_to_utc(request.payload.local_datetime, request.payload.tz).ok
UpstreamError ==
    IsPlace /\ (env.kind = "unreachable" \/ env.status >= 400 \/ ~env.json)
ShapeError ==
    /\ IsChart /\ ~ValidationError
    /\ ~env.houses.raises /\ env.houses.n < 12
AnyError == ConfigError \/ ValidationError \/ ParseError \/ UpstreamError \/ ShapeError

TaggedError(where) ==
    /\ response.status = 500
    /\ DOMAIN response.body = {"error", "where"}
    /\ response.body.where = where

\* C2 as claimed: every error of kinds (a)-(e) in /api/chart or
\* /api/resolve_place comes back as a JSON error object carrying an error
\* message and a 'where' tag naming the endpoint.
C2_EveryErrorIsTagged ==
    AnyError => /\ "error" \in DOMAIN response.body
                /\ "where" \in DOMAIN response.body
                /\ response.body.where = request.endpoint

\* C2, what the code does: errors of kinds (a), (c), (d), (e) come back as a 500 JSON
\* object {error, where: endpoint}; a validation error (b) of /api/chart comes
\* back as a JSON error object too, which is the 400 {error} object, without a
\* 'where' tag, unless an earlier step already failed with a tagged 500.  Every
\* handled request gets a response: none escapes the handler.
C2_ErrorsAreCaught ==
    /\ (ConfigError \/ ParseError \/ ShapeError) => TaggedError("chart")
    /\ UpstreamError => TaggedError("resolve_place")
    /\ ValidationError =>
          \/ TaggedError("chart")
          \/ response.status = 400 /\ DOMAIN response.body = {"error"}
    /\ (IsChart \/ IsPlace) => response.status \in {200, 400, 500}

C2_Witness ==
    /\ IsPlace /\ env.kind = "http" /\ env.status = 200 /\ ~env.json
    /\ response.status = 500 /\ response.body.where = "resolve_place"

FullChartResult ==
    /\ response.status = 200
    /\ DOMAIN response.body = {"code_version"} \cup ChartFields
    /\ DOMAIN response.body.planets = PlanetNames
    /\ DOMAIN response.body.house_cusps = HouseKeys

ErrorObject ==
    /\ response.status \in {400, 500}
    /\ "error" \in DOMAIN response.body
    /\ DOMAIN response.body \cap ChartFields = {}

\* C3: every response of /api/chart is either a full ChartResult (planets keyed
\* by exactly PLANETS, house_cusps by exactly "1".."12") or an error object with
\* none of the chart fields; a failure of a body's engine call, of the house
\* call or of the cusp reshaping leaves no planets or house_cusps in the response.
C3_NoPartialResults ==
    IsChart =>
        /\ FullChartResult \/ ErrorObject
        /\ ~(FullChartResult /\ ErrorObject)
        /\ (env.calc_fail # 0 \/ env.houses.raises \/ env.houses.n < 12) => ErrorObject

C3_Witness ==
    /\ IsChart /\ env.calc_fail = Len(PLANETS)
    /\ Len(SelectSeq(calls, LAMBDA c : c = "calc_ut")) = Len(PLANETS)
    /\ ErrorObject

\* C4: for every twelve cusps c1..c12 the handler returns house k -> position
\* of ck, the same mapping whether the engine hands them over as a 12-entry
\* 0-based array or as a 13-entry 1-based array, alone or paired with angles.
C4_BothShapesSameHouses ==
    (IsChart /\ Called("houses_ex") /\ ~env.houses.raises /\ env.houses.n \in {12, 13}) =>
        /\ response.status = 200
        /\ \A k \in 1..12 :
              response.body.house_cusps[HouseKey[k]] = deg_to_sign(env.houses.cs[k].n)

C4_Witness ==
    /\ IsChart /\ response.status = 200
    /\ env.houses.n = 13 /\ ~env.houses.paired
    /\ env.houses.cs[1].n # 0
    /\ env.houses.cs[1].n % Deg # 0
    /\ response.body.house_cusps["1"] = deg_to_sign(env.houses.cs[1].n)

\* the cusp array as the engine returned it
RawCusps ==
    IF env.houses.paired THEN env.houses.res.items[1].items ELSE env.houses.res.items

HousesReturned == IsChart /\ Called("houses_ex") /\ ~env.houses.raises

\* C5 as claimed: a cusp array of neither exactly 12 nor exactly 13 entries,
\* shorter than 12 or longer than 13, makes the handler fail with a 500 error
\* object and no house cusps.
C5_OtherLengthsFail ==
    (HousesReturned /\ env.houses.n \notin {12, 13}) =>
        /\ response.status = 500
        /\ "house_cusps" \notin DOMAIN response.body

\* C5, what the code does: a cusp array of fewer than 12 entries makes the handler fail
\* with the structural 500 error object and no house cusps; an array of more
\* than 13 entries is accepted, its first 12 entries being houses 1..12.
C5_ShortFailsLongIsCut ==
    HousesReturned =>
        /\ env.houses.n < 12 =>
              /\ TaggedError("chart")
              /\ response.body.error = "Unexpected cusps length"
        /\ env.houses.n > 13 =>
              /\ response.status = 200
              /\ \A k \in 1..12 :
                    response.body.house_cusps[HouseKey[k]] = deg_to_sign(RawCusps[k].n)

C5_Witness ==
    /\ HousesReturned /\ env.houses.n = 11 /\ env.houses.paired = FALSE
    /\ response.status = 500

AsciiLetters ==
    {Char(LowerAlpha, i) : i \in 1..26} \cup {Char(UpperAlpha, i) : i \in 1..26}

\* the house-system code the claim expects for a house_system field
ExpectedHouseSystem(v) ==
    IF v.t = "str" /\ v.s # "" /\ Char(v.s, 1) \in AsciiLetters
    THEN UpperChar(Char(v.s, 1)) ELSE "P"

\* C6: whatever the house_system field holds, the request does not fail because
\* of it, and the code echoed in input.house_system is one ASCII character: the
\* upper-cased first character of a well-formed value, 'P' when the field is
\* absent or malformed.
C6_HouseSystemNeverFails ==
    (IsChart /\ chart([request.payload EXCEPT !.house_system = Str("P")],
                      env, dir_exists, disk).response.status = 200) =>
        /\ response.status = 200
        /\ response.body.input.house_system
              = ExpectedHouseSystem(request.payload.house_system)

SignIndex(name) == (CHOOSE i \in DOMAIN SIGNS : SIGNS[i] = name) - 1

\* C7: for every longitude L, deg_to_sign(L) gives a sign index in 0..11 and a
\* degree_in_sign in [0, 30) with sign_index*30 + degree_in_sign congruent to L
\* modulo 360 (to the six decimals reported), and a longitude in [0, 360).
C7_SignAndDegreeInRange ==
    (request.endpoint = "deg_to_sign" /\ response # NoResponse) =>
        LET r == response.returned
            L == request.lon_deg
        IN  /\ SignIndex(r.sign) \in 0..11
            /\ 0 <= r.deg /\ r.deg < 30 * Deg
            /\ 0 <= r.lon /\ r.lon < 360 * Deg
            /\ (SignIndex(r.sign) * 30 * Deg + r.deg) % (360 * Deg)
                  = Round6(L % (360 * Deg)) % (360 * Deg)

EngineQueries == {"julday", "calc_ut", "houses_ex"}
CheckPassedBefore(i) == \E j \in 1..(i - 1) : calls[j] = "ensure_ephe_present:ok"

\* C8 as claimed: no call to the engine (setting its data path, a body query,
\* the house query) happens before the directory check has passed, and a chart
\* request whose check fails ends with a configuration error and no engine call.
C8_NoEngineCallBeforeCheck ==
    /\ startup_calls = <<>>
    /\ \A i \in DOMAIN calls : calls[i] \in EngineQueries => CheckPassedBefore(i)
    /\ (IsChart /\ ~DirOk) =>
          /\ TaggedError("chart")
          /\ \A i \in DOMAIN calls : calls[i] \notin EngineQueries

\* C8 as amended: no body query and no house query (and no julday call) of a
\* chart request happens before that request's directory check has passed, and
\* a chart request whose check fails ends with the configuration error and no
\* engine call; the engine's data path is set once, when the module is
\* imported, before any check.
C8_NoQueryBeforeCheck ==
    /\ \A i \in DOMAIN calls : calls[i] \in EngineQueries => CheckPassedBefore(i)
    /\ (IsChart /\ ~DirOk) =>
          /\ TaggedError("chart")
          /\ response.body.error \in {"EPHE_PATH not found", "No .se1 files found in EPHE_PATH"}
          /\ \A i \in DOMAIN calls : calls[i] \notin EngineQueries
    /\ (IsChart /\ DirOk) => calls[1] = "ensure_ephe_present:ok"
    /\ loaded => startup_calls = <<"set_ephe_path">>

C8_Witness ==
    /\ IsChart /\ dir_exists /\ ~DirOk
    /\ request.payload \in GoodPayloads
    /\ calls = <<"ensure_ephe_present:raise">>
    /\ response.status = 500

\* the geocoding service answered successfully
Answered ==
    /\ IsPlace /\ env.kind = "http" /\ env.status < 400 /\ env.json
    /\ env.data.t = "dict"
ServiceMatches ==
    IF env.data.results.t = "tuple" THEN env.data.results.items ELSE <<>>

\* C9: when the service answers successfully with no matches ('results' absent,
\* null or empty) the response is 200 with an empty list; with n matches it is
\* 200 with n candidates in the service's order, each with the service's
\* timezone, or "UTC" when the service gives none.
C9_CandidatesFollowMatches ==
    Answered =>
        /\ response.status = 200
        /\ Len(response.body) = Len(ServiceMatches)
        /\ \A i \in DOMAIN ServiceMatches :
              LET m == ServiceMatches[i]
                  c == response.body[i]
              IN  /\ c.lat = (IF m.latitude.t = "num" THEN m.latitude.n ELSE StrToNum(m.latitude.s))
                  /\ c.lon = m.longitude.n
                  /\ c.tz = (IF m.timezone.t = "str" /\ m.timezone.s # ""
                             THEN m.timezone.s ELSE "UTC")

C9_Witness ==
    /\ Answered /\ Len(ServiceMatches) = 2
    /\ ServiceMatches[1].timezone = Absent
    /\ ServiceMatches[2].timezone = Str("Europe/Paris")
    /\ response.status = 200
    /\ response.body[1].tz = "UTC" /\ response.body[2].tz = "Europe/Paris"

Logged(op, what) == \E i \in DOMAIN dl_log : dl_log[i] = Event(op, what)
IndexOf(op, what) == CHOOSE i \in DOMAIN dl_log : dl_log[i] = Event(op, what)

\* C10: whatever each file's downloads and decompression do, main goes through
\* all of FILES and ends at 'Ephemeris ready' without aborting; the .gz of a
\* file is requested only after its plain download failed, and a file is
\* reported missing exactly when both of its downloads failed.
C10_ProvisioningNeverAborts ==
    /\ dl_pc # "aborted"
    /\ \A i \in DOMAIN FILES :
          Logged("[get ]", GzName(FILES[i])) =>
              /\ Logged("[miss]", FILES[i])
              /\ IndexOf("[miss]", FILES[i]) < IndexOf("[get ]", GzName(FILES[i]))
    /\ dl_pc = "done" =>
          /\ Logged("Ephemeris ready", "")
          /\ \A i \in DOMAIN FILES :
                (\E j \in DOMAIN missing : missing[j] = FILES[i])
                    <=> (Logged("[miss]", FILES[i]) /\ Logged("[miss]", GzName(FILES[i])))

====
